---- MODULE Spec2Model ----
(***************************************************************************)
(* Conway's Game of Life (john_conways.py, main.py).                       *)
(*                                                                         *)
(* The Grid object (width, height, grid, alive_count, spawing), the locals *)
(* of main() (flip_flop, simulation_speed, paused, running) and the        *)
(* position of main()'s frame loop (pc, pending) are the state.  One frame *)
(* is: poll the pending events, process them one by one, sample the mouse, *)
(* update the grid unless paused, render.                                  *)
(***************************************************************************)
EXTENDS Integers, Sequences, FiniteSets

(* ---- bounds of the model ---- *)

\* main() builds a grid_width x grid_height grid (100 x 100 in main.py);
\* the frame-loop specification uses a GridWidth x GridHeight grid.  The
\* generation rule itself is examined on larger grids, in SpecUpdate.
GridWidth == 2
GridHeight == 1
\* Largest number of events one pygame.event.get() call returns.
MaxEvents == 2
\* Largest number of 's' key-downs in a run: once s_presses has reached it,
\* no further 's' key-down is delivered.
MaxPresses == 2
\* Grids of the update-only specification: up to MaxW x MaxH, at most MaxCells cells.
MaxW == 3
MaxH == 3
MaxCells == 9
\* Largest value of random.randint(1, life_chance) that is enumerated:
\* update() only tests rand_num == 1, so every value above 1 behaves like 2.
MaxDraw == 2
\* Largest number of spawns followed in one update() of the 5 x 5 grid
\* (24 dead cells can spawn in 2^23 ways).
MaxSpawns == 2
\* Largest number of consecutive frames the button is followed on one cell.
MaxHold == 4

(* ---- program constants ---- *)

cell_size == 8
InitialSpeed == 10
SpeedStep == 5
MaxSpeed == 120
MinSpeed == 5
LifeChanceCap == 1000
InitialFlipFlop == 1

VARIABLES
    width,            \* Grid.width
    height,           \* Grid.height
    grid,             \* Grid.grid: grid[x][y] is Cell.is_alive
    alive_count,      \* Grid.alive_count
    spawing,          \* Grid.spawing
    flip_flop,        \* main(): flip_flop
    simulation_speed, \* main(): simulation_speed
    paused,           \* main(): paused
    running,          \* main(): running
    pc,               \* position in main()'s frame loop
    pending,          \* events of the current pygame.event.get() list not yet processed
    did_update,       \* history: update() was called in the current frame
    entry_grid,       \* history: the grid as it was when that update() was entered
    used_neighbors,   \* history: the value of `neighbors` update() computed for each cell
    old_grid,         \* history: the grid that update() read and then discarded, as its spawns left it
    life_chance_start,\* history: life_chance when the loops of that update() began
    life_chance_end,  \* history: life_chance when the loops of that update() ended
    s_presses,        \* history: number of 's' key-downs processed so far
    space_seen,       \* history: a SPACE key-down has been processed
    hold              \* history: the cell the button has been held on, for how many frames, and its state before

vars == << width, height, grid, alive_count, spawing, flip_flop, simulation_speed,
           paused, running, pc, pending, did_update, entry_grid, used_neighbors,
           old_grid, life_chance_start, life_chance_end, s_presses, space_seen, hold >>

(* ---- helpers ---- *)

Min(a, b) == IF a < b THEN a ELSE b
Max(a, b) == IF a > b THEN a ELSE b

\* len() of a Python list modelled as a function on 0..n-1
len(l) == Cardinality(DOMAIN l)

\* [[Cell(False) for _ in range(height)] for _ in range(width)]
NewGrid(w, h) == [x \in 0..(w - 1) |-> [y \in 0..(h - 1) |-> FALSE]]

\* No history recorded (outside an update()).
NoGrid == << >>

\* The button is not being held on a cell.
NoHold == [cell |-> << >>, frames |-> 0, origin |-> FALSE]

(* ---- john_conways.py: Cell.check_neighbors ---- *)

\* The eight offsets, in the order of the `directions` list.
directions == << <<-1, -1>>, <<-1, 0>>, <<-1, 1>>,
                 <<0, -1>>,             <<0, 1>>,
                 <<1, -1>>,  <<1, 0>>,  <<1, 1>> >>

\* A neighbour test that forgets the two `0 <=` comparisons: Python's negative
\* index then reads the last column or row (wraparound).
NeighborAliveWrap(g, nx, ny) ==
    /\ nx < len(g)
    /\ ny < len(g[0])
    /\ g[nx % len(g)][ny % len(g[0])]

\* A bounds test with `<=` for `<`: it lets the index one past the end through.
InBoundsOffByOne(g, nx, ny) ==
    /\ 0 <= nx /\ nx <= len(g)
    /\ 0 <= ny /\ ny <= len(g[0])

\* 0 <= nx < len(grid) and 0 <= ny < len(grid[0]); as in Python, grid[0] is
\* read only if the test on nx has passed.
InBounds(g, nx, ny) ==
    /\ 0 <= nx /\ nx < len(g)
    /\ 0 <= ny /\ ny < len(g[0])

\* if 0 <= nx < len(grid) and 0 <= ny < len(grid[0]): if grid[nx][ny].is_alive
NeighborAlive(g, nx, ny) ==
    /\ InBounds(g, nx, ny)
    /\ g[nx][ny]

\* The loop over directions[i..8], adding 1 for each alive in-grid neighbour.
RECURSIVE CountFrom(_, _, _, _)
CountFrom(g, x, y, i) ==
    IF i > Len(directions) THEN 0
    ELSE LET nx == x + directions[i][1]
             ny == y + directions[i][2]
         IN  (IF NeighborAlive(g, nx, ny) THEN 1 ELSE 0) + CountFrom(g, x, y, i + 1)

check_neighbors(g, x, y) == CountFrom(g, x, y, 1)

(* ---- john_conways.py: Grid.update ---- *)

\* A survival rule that keeps every alive cell with at least 2 neighbours.
SurvivesAtLeastTwo(neighbors) == neighbors >= 2

\* new_grid[x][y].is_alive = neighbors in [2, 3]
Survives(neighbors) == neighbors \in {2, 3}

\* A birth rule that also accepts 2 neighbours.
BornTwoOrThree(neighbors) == neighbors \in {2, 3}

\* new_grid[x][y].is_alive = neighbors == 3
Born(neighbors) == neighbors = 3

\* A spawn test with `<=` for `<`: a spawn is still made at the cap.
SpawnHitAtCap(rand_num, life_chance, sp) ==
    rand_num = 1 /\ life_chance <= LifeChanceCap /\ sp

\* rand_num == 1 and life_chance < 1000 and self.spawing
SpawnHit(rand_num, life_chance, sp) ==
    rand_num = 1 /\ life_chance < LifeChanceCap /\ sp

\* A count that is incremented for every cell, alive or not.
CountEveryCell(new_alive_count, cell_alive) == new_alive_count + 1

\* if new_grid[x][y].is_alive: new_alive_count += 1
CountCell(new_alive_count, cell_alive) ==
    IF cell_alive THEN new_alive_count + 1 ELSE new_alive_count

\* random.randint(a, b): any of a..b (values above MaxDraw are left out).
randint(a, b) == a..Min(b, MaxDraw)

\* The locals of update() before the loops: self.grid, new_grid,
\* new_alive_count, life_chance; `seen` records the value of `neighbors`
\* computed for each cell.
UpdateStart(g, w, h) ==
    [ grid            |-> g,
      new_grid        |-> NewGrid(w, h),
      new_alive_count |-> 0,
      life_chance     |-> 1,
      seen            |-> [x \in 0..(w - 1) |-> [y \in 0..(h - 1) |-> 0]] ]

\* A loop body that writes the spawn into new_grid: the spawned cell is alive
\* in the next generation and the grid being read is left alone.
UpdateCellSpawnsInNewGrid(st, x, y, rand_num, sp) ==
    LET neighbors == check_neighbors(st.grid, x, y)
        was_alive == st.grid[x][y]
        spawn     == ~was_alive /\ SpawnHit(rand_num, st.life_chance, sp)
        now_alive == IF was_alive THEN Survives(neighbors) ELSE (Born(neighbors) \/ spawn)
    IN  [ grid            |-> st.grid,
          new_grid        |-> [st.new_grid EXCEPT ![x][y] = now_alive],
          new_alive_count |-> CountCell(st.new_alive_count, now_alive),
          life_chance     |-> IF spawn THEN st.life_chance + 1 ELSE st.life_chance,
          seen            |-> [st.seen EXCEPT ![x][y] = neighbors] ]

\* One iteration of the loop body for cell (x, y), with rand_num the value
\* random.randint(1, life_chance) returned.
UpdateCell(st, x, y, rand_num, sp) ==
    LET neighbors == check_neighbors(st.grid, x, y)
        was_alive == st.grid[x][y]
        now_alive == IF was_alive THEN Survives(neighbors) ELSE Born(neighbors)
        spawn     == ~was_alive /\ SpawnHit(rand_num, st.life_chance, sp)
    IN  [ grid            |-> IF spawn THEN [st.grid EXCEPT ![x][y] = TRUE] ELSE st.grid,
          new_grid        |-> [st.new_grid EXCEPT ![x][y] = now_alive],
          new_alive_count |-> CountCell(st.new_alive_count, now_alive),
          life_chance     |-> IF spawn THEN st.life_chance + 1 ELSE st.life_chance,
          seen            |-> [st.seen EXCEPT ![x][y] = neighbors] ]

\* The values of random.randint(1, life_chance) that are enumerated when at
\* most `hits` spawns per update() are followed: once `hits` cells have been
\* spawned (life_chance > hits), only draws above 1.
DrawsWithin(life_chance, hits) ==
    IF life_chance > hits /\ life_chance > 1
    THEN randint(1, life_chance) \ {1}
    ELSE randint(1, life_chance)

\* for x in range(width): for y in range(height): the scan from cell k on,
\* cell k being (k div h, k mod h).  sts is the set of values the locals can
\* have when the scan reaches cell k; the result is the set of values they
\* can have when the loops end, over all draws with at most `hits` spawns.
RECURSIVE UpdateScanWithin(_, _, _, _, _, _)
UpdateScanWithin(sts, k, w, h, sp, hits) ==
    IF k >= w * h THEN sts
    ELSE UpdateScanWithin(
            UNION { { UpdateCell(st, k \div h, k % h, rand_num, sp) :
                      rand_num \in DrawsWithin(st.life_chance, hits) } : st \in sts },
            k + 1, w, h, sp, hits)

\* The scan over all draws: a scan of w * h cells spawns at most w * h cells.
UpdateScan(sts, k, w, h, sp) == UpdateScanWithin(sts, k, w, h, sp, w * h)

\* update() on grid g with at most `hits` spawns.
updateWithin(g, w, h, sp, hits) ==
    UpdateScanWithin({UpdateStart(g, w, h)}, 0, w, h, sp, hits)

\* update() on grid g: the values the locals can have when the loops end.
update(g, w, h, sp) == UpdateScan({UpdateStart(g, w, h)}, 0, w, h, sp)

\* The positions of grid g, and the number of them that are alive.
Cells(g) == UNION { { <<x, y>> : y \in DOMAIN g[x] } : x \in DOMAIN g }

AliveCells(g) == Cardinality({c \in Cells(g) : g[c[1]][c[2]]})

(* ---- main.py: handle_mouse_input ---- *)

\* A handler that forgets the two `0 <=` comparisons: a cursor left of or
\* above the window gives a negative index, which Python reads from the end.
handle_mouse_input_wrap(g, w, h, size, pressed, px, py) ==
    LET grid_x == px \div size
        grid_y == py \div size
    IN  IF pressed /\ grid_x < w /\ grid_y < h
        THEN [g EXCEPT ![grid_x % w][grid_y % h] = ~g[grid_x % w][grid_y % h]]
        ELSE g

\* A handler that sets the cell alive instead of toggling it.
handle_mouse_input_set(g, w, h, size, pressed, px, py) ==
    LET grid_x == px \div size
        grid_y == py \div size
    IN  IF pressed /\ 0 <= grid_x /\ grid_x < w /\ 0 <= grid_y /\ grid_y < h
        THEN [g EXCEPT ![grid_x][grid_y] = TRUE]
        ELSE g

\* pygame.mouse.get_pressed()[0] is `pressed`, pygame.mouse.get_pos() is (px, py).
handle_mouse_input(g, w, h, size, pressed, px, py) ==
    LET grid_x == px \div size
        grid_y == py \div size
    IN  IF pressed /\ 0 <= grid_x /\ grid_x < w /\ 0 <= grid_y /\ grid_y < h
        THEN [g EXCEPT ![grid_x][grid_y] = ~g[grid_x][grid_y]]
        ELSE g

(* ---- main.py: process_input ---- *)

Keys == {"K_SPACE", "K_EQUALS", "K_MINUS", "K_s", "K_OTHER"}

\* The events pygame.event.get() can deliver: key-downs and key-ups of the
\* bound keys and of any other key, and the window-close event.
Events ==
    [type : {"KEYDOWN", "KEYUP"}, key : Keys] \cup {[type |-> "QUIT", key |-> "none"]}

KeyDown(k) == [type |-> "KEYDOWN", key |-> k]

\* A speed-up without the cap.
SpeedUpUncapped(speed) == speed + SpeedStep

\* simulation_speed = min(simulation_speed + 5, 120)
SpeedUp(speed) == Min(speed + SpeedStep, MaxSpeed)

\* A speed-down without the floor.
SpeedDownUnfloored(speed) == speed - SpeedStep

\* simulation_speed = max(simulation_speed - 5, 5)
SpeedDown(speed) == Max(speed - SpeedStep, MinSpeed)

\* process_input: the returned (flip_flop, paused, simulation_speed) and the
\* value it leaves in game_world.spawing.
process_input(event, sp, ff, p, speed) ==
    LET same == [spawing |-> sp, flip_flop |-> ff, paused |-> p, simulation_speed |-> speed]
    IN  IF event.type = "KEYDOWN"
        THEN IF event.key = "K_SPACE" THEN [same EXCEPT !.paused = ~p]
             ELSE IF event.key = "K_EQUALS" THEN [same EXCEPT !.simulation_speed = SpeedUp(speed)]
             ELSE IF event.key = "K_MINUS" THEN [same EXCEPT !.simulation_speed = SpeedDown(speed)]
             ELSE IF event.key = "K_s"
                  THEN IF ff = 1
                       THEN [same EXCEPT !.spawing = FALSE, !.flip_flop = 2]
                       ELSE [same EXCEPT !.spawing = TRUE, !.flip_flop = 1]
             ELSE same
        ELSE same

(* ---- main.py: main ---- *)

\* An update() that runs in every frame, paused or not.
UpdateAlways(p) == TRUE

\* An inverted test: update() runs in the paused frames only.
UpdateWhenPaused(p) == p

\* if not paused: game_world.update()
ShouldUpdate(p) == ~p

\* A loop whose condition is always true.
WhileTrue(r) == "poll"

\* while running: the next frame starts, or the loop is left and the program
\* ends with pygame.quit().
WhileRunning(r) == IF r THEN "poll" ELSE "done"

\* A program that starts running.
StartsRunning == FALSE

\* paused = True
InitialPaused == TRUE

\* The state when main() reaches `while running` for the first time.
Init ==
    /\ width = GridWidth
    /\ height = GridHeight
    /\ grid = NewGrid(GridWidth, GridHeight)
    /\ alive_count = 0
    /\ spawing = FALSE
    /\ flip_flop = InitialFlipFlop
    /\ simulation_speed = InitialSpeed
    /\ paused = InitialPaused
    /\ running = TRUE
    /\ pc = "poll"
    /\ pending = 0
    /\ did_update = FALSE
    /\ entry_grid = NoGrid
    /\ used_neighbors = NoGrid
    /\ old_grid = NoGrid
    /\ life_chance_start = 0
    /\ life_chance_end = 0
    /\ s_presses = 0
    /\ space_seen = FALSE
    /\ hold = NoHold

\* for event in pygame.event.get(): the list holds n events.
PollEvents(n) ==
    /\ pc = "poll"
    /\ pending' = n
    /\ pc' = "events"
    /\ UNCHANGED << width, height, grid, alive_count, spawing, flip_flop, simulation_speed,
                    paused, running, did_update, entry_grid, used_neighbors,
                    old_grid, life_chance_start, life_chance_end, s_presses, space_seen, hold >>

Poll == \E n \in 0..MaxEvents : PollEvents(n)

\* One iteration of the event loop, for the event e: running = False on a
\* QUIT event, then process_input.
HandleEvent(e) ==
    /\ pc = "events"
    /\ pending > 0
    /\ e = KeyDown("K_s") => s_presses < MaxPresses
    /\ pending' = pending - 1
    /\ running' = IF e.type = "QUIT" THEN FALSE ELSE running
    /\ LET r == process_input(e, spawing, flip_flop, paused, simulation_speed)
       IN  /\ spawing' = r.spawing
           /\ flip_flop' = r.flip_flop
           /\ paused' = r.paused
           /\ simulation_speed' = r.simulation_speed
    /\ s_presses' = IF e = KeyDown("K_s") THEN s_presses + 1 ELSE s_presses
    /\ space_seen' = (space_seen \/ e = KeyDown("K_SPACE"))
    /\ UNCHANGED << width, height, grid, alive_count, pc, did_update, entry_grid,
                    used_neighbors, old_grid, life_chance_start, life_chance_end, hold >>

ProcessEvent == \E e \in Events : HandleEvent(e)

\* The event loop ends.
EventsDone ==
    /\ pc = "events"
    /\ pending = 0
    /\ pc' = "mouse"
    /\ UNCHANGED << width, height, grid, alive_count, spawing, flip_flop, simulation_speed,
                    paused, running, pending, did_update, entry_grid, used_neighbors,
                    old_grid, life_chance_start, life_chance_end, s_presses, space_seen, hold >>

\* The pixel coordinates the cursor is sampled at, along an axis of n cells:
\* the first and the last pixel of every cell, and one pixel beyond the
\* window on either side.
Pixels(n) ==
    {-1, n * cell_size} \cup
    UNION { {c * cell_size, c * cell_size + cell_size - 1} : c \in 0..(n - 1) }

\* handle_mouse_input(game_world, cell_size), the button being held or not
\* and the cursor at pixel (px, py).
MouseStep(pressed, px, py) ==
    /\ pc = "mouse"
    /\ grid' = handle_mouse_input(grid, width, height, cell_size, pressed, px, py)
    /\ pc' = "update"
    /\ UNCHANGED << width, height, alive_count, spawing, flip_flop, simulation_speed,
                    paused, running, pending, did_update, entry_grid, used_neighbors,
                    old_grid, life_chance_start, life_chance_end, s_presses, space_seen >>

\* The mouse sample of a frame; how long the button has been held is not recorded.
MouseSample(pressed, px, py) ==
    /\ MouseStep(pressed, px, py)
    /\ UNCHANGED hold

\* The button is up (the cursor is not read), or it is held with the cursor
\* at any of the sampled pixels.
Mouse ==
    \/ MouseSample(FALSE, 0, 0)
    \/ \E px \in Pixels(width), py \in Pixels(height) : MouseSample(TRUE, px, py)

\* self.grid = new_grid; self.alive_count = new_alive_count, for the locals st.
Install(st) ==
    /\ grid' = st.new_grid
    /\ alive_count' = st.new_alive_count
    /\ did_update' = TRUE
    /\ entry_grid' = grid
    /\ used_neighbors' = st.seen
    /\ old_grid' = st.grid
    /\ life_chance_start' = UpdateStart(grid, width, height).life_chance
    /\ life_chance_end' = st.life_chance

\* if not paused: game_world.update(), over the draws with at most `hits` spawns.
UpdateWithin(hits) ==
    /\ pc = "update"
    /\ ShouldUpdate(paused)
    /\ \E st \in updateWithin(grid, width, height, spawing, hits) : Install(st)
    /\ pc' = "render"
    /\ UNCHANGED << width, height, spawing, flip_flop, simulation_speed, paused, running,
                    pending, s_presses, space_seen, hold >>

\* if not paused: game_world.update(), over all draws.
Update == UpdateWithin(width * height)

\* paused: the frame goes on without update().
SkipUpdate ==
    /\ pc = "update"
    /\ ~ShouldUpdate(paused)
    /\ pc' = "render"
    /\ UNCHANGED << width, height, grid, alive_count, spawing, flip_flop, simulation_speed,
                    paused, running, pending, did_update, entry_grid, used_neighbors,
                    old_grid, life_chance_start, life_chance_end, s_presses, space_seen, hold >>

\* screen.fill .. clock.tick, then `while running` is tested again; after the
\* loop, pygame.quit().
RenderStep ==
    /\ pc = "render"
    /\ pc' = WhileRunning(running)
    /\ did_update' = FALSE
    /\ entry_grid' = NoGrid
    /\ used_neighbors' = NoGrid
    /\ old_grid' = NoGrid
    /\ life_chance_start' = 0
    /\ UNCHANGED << width, height, grid, alive_count, spawing, flip_flop, simulation_speed,
                    paused, running, pending, s_presses, space_seen, hold >>

\* The end of a frame; the record of the frame's update() is dropped.
Render ==
    /\ RenderStep
    /\ life_chance_end' = 0

Next == Poll \/ ProcessEvent \/ EventsDone \/ Mouse \/ Update \/ SkipUpdate \/ Render

Spec == Init /\ [][Next]_vars

\* The frame loop of a session driven from the keyboard: the button is up
\* at every mouse sample, and with spawning on the draws with at most
\* MaxSpawns spawns per update() are followed (the handling of events and
\* the loop condition never read the grid).
NextKeys ==
    \/ Poll
    \/ ProcessEvent
    \/ EventsDone
    \/ MouseSample(FALSE, 0, 0)
    \/ UpdateWithin(MaxSpawns)
    \/ SkipUpdate
    \/ Render

\* The frame loop is one thread in which every step returns
\* (pygame.event.get, the handlers, update(), the drawing calls and
\* clock.tick do not block): a step that can be taken is taken.
SpecFair == Init /\ [][NextKeys]_vars /\ WF_vars(NextKeys)

(* ---- update() alone, from any grid ---- *)

\* Any grid of up to MaxW x MaxH cells (at most MaxCells), as mouse toggles
\* leave it, with the spawning latch in any state 's' key-downs give it, at
\* the point of a running frame where update() is called.  alive_count is
\* what the last update() left: 0 at start, or the count of a generation
\* that mouse toggles have not changed since.
InitUpdate ==
    /\ width \in 0..MaxW
    /\ height \in 0..MaxH
    /\ width * height <= MaxCells
    /\ grid \in [0..(width - 1) -> [0..(height - 1) -> BOOLEAN]]
    /\ alive_count \in {0, AliveCells(grid)}
    /\ s_presses \in 0..Min(2, MaxPresses)
    /\ spawing = (s_presses = 2)
    /\ flip_flop = IF s_presses = 1 THEN 2 ELSE 1
    /\ simulation_speed = InitialSpeed
    /\ paused = FALSE
    /\ running = TRUE
    /\ pc = "update"
    /\ pending = 0
    /\ did_update = FALSE
    /\ entry_grid = NoGrid
    /\ used_neighbors = NoGrid
    /\ old_grid = NoGrid
    /\ life_chance_start = 0
    /\ life_chance_end = 0
    /\ space_seen = TRUE
    /\ hold = NoHold

NextUpdate == Update

SpecUpdate == InitUpdate /\ [][NextUpdate]_vars

(* ---- the button held over paused frames ---- *)

\* The record of the hold after a mouse sample on grid g: one more frame on
\* the same in-grid cell, the first frame on another in-grid cell (whose
\* state before the sample is kept), or no hold.
HoldAfter(h, g, pressed, px, py) ==
    LET c == << px \div cell_size, py \div cell_size >>
    IN  IF pressed /\ c \in Cells(g)
        THEN IF h.frames > 0 /\ h.cell = c
             THEN [h EXCEPT !.frames = h.frames + 1]
             ELSE [cell |-> c, frames |-> 1, origin |-> g[c[1]][c[2]]]
        ELSE NoHold

\* The mouse sample of a frame, recording the hold (up to MaxHold frames on one cell).
HoldSample(pressed, px, py) ==
    /\ HoldAfter(hold, grid, pressed, px, py).frames <= MaxHold
    /\ MouseStep(pressed, px, py)
    /\ hold' = HoldAfter(hold, grid, pressed, px, py)

HoldMouse ==
    \/ HoldSample(FALSE, 0, 0)
    \/ \E px \in Pixels(width), py \in Pixels(height) : HoldSample(TRUE, px, py)

\* Frames without events from the start of the program, which is paused.
NextHold == PollEvents(0) \/ EventsDone \/ HoldMouse \/ SkipUpdate \/ Render

SpecHold == Init /\ [][NextHold]_vars

(* ---- consecutive update() calls ---- *)

\* The end of a frame; the threshold the last update() ended with stays on
\* record (0: no update() yet), so that the next update(), in whatever
\* later frame it runs, can be compared with it.
RenderKeep ==
    /\ RenderStep
    /\ UNCHANGED life_chance_end

\* The frame loop, every step of it, with that record kept across frames.
NextSession ==
    Poll \/ ProcessEvent \/ EventsDone \/ Mouse \/ Update \/ SkipUpdate \/ RenderKeep

SpecSession == Init /\ [][NextSession]_vars

(* ---- update() on a 5 x 5 grid with one alive cell ---- *)

\* A 5 x 5 grid in which exactly one cell is alive, at any position, at the
\* point of a running frame where update() is called, the spawning latch in
\* any state.
InitLoneCell ==
    /\ width = 5
    /\ height = 5
    /\ \E c \in Cells(NewGrid(5, 5)) : grid = [NewGrid(5, 5) EXCEPT ![c[1]][c[2]] = TRUE]
    /\ alive_count \in {0, 1}
    /\ s_presses \in 0..Min(2, MaxPresses)
    /\ spawing = (s_presses = 2)
    /\ flip_flop = IF s_presses = 1 THEN 2 ELSE 1
    /\ simulation_speed = InitialSpeed
    /\ paused = FALSE
    /\ running = TRUE
    /\ pc = "update"
    /\ pending = 0
    /\ did_update = FALSE
    /\ entry_grid = NoGrid
    /\ used_neighbors = NoGrid
    /\ old_grid = NoGrid
    /\ life_chance_start = 0
    /\ life_chance_end = 0
    /\ space_seen = TRUE
    /\ hold = NoHold

\* One update(); with spawning on, the draws with at most MaxSpawns spawns.
NextLoneCell == UpdateWithin(MaxSpawns)

SpecLoneCell == InitLoneCell /\ [][NextLoneCell]_vars

(* ---- properties ---- *)

Abs(n) == IF n < 0 THEN -n ELSE n

\* The alive Moore neighbours of c in g: the cells of g other than c that
\* are at most one step away on either axis.
MooreCount(g, c) ==
    Cardinality({d \in Cells(g) : /\ d # c
                                  /\ Abs(d[1] - c[1]) <= 1
                                  /\ Abs(d[2] - c[2]) <= 1
                                  /\ g[d[1]][d[2]]})

\* C1: in every reachable state alive_count is the number of alive cells of
\* the current grid.
C1_AliveCountMatchesGrid == alive_count = AliveCells(grid)

\* C2: after every update(), a cell that was alive before the call is alive
\* iff it had 2 or 3 alive Moore neighbours in the generation before the call.
C2_SurvivalOnEntryCounts ==
    did_update =>
        \A c \in Cells(entry_grid) :
            entry_grid[c[1]][c[2]] =>
                (grid[c[1]][c[2]] <=> MooreCount(entry_grid, c) \in {2, 3})

\* C3: after every update() made with spawning disabled, a cell that was
\* dead before the call is alive iff it had exactly 3 alive Moore neighbours
\* in the generation before the call.
C3_BirthWithoutSpawning ==
    (did_update /\ ~spawing) =>
        \A c \in Cells(entry_grid) :
            ~entry_grid[c[1]][c[2]] =>
                (grid[c[1]][c[2]] <=> MooreCount(entry_grid, c) = 3)

\* An update() without spawning has brought a dead cell to life and left
\* another dead cell dead.
C3_Witness ==
    /\ did_update
    /\ ~spawing
    /\ \E c, d \in Cells(entry_grid) :
          /\ ~entry_grid[c[1]][c[2]] /\ grid[c[1]][c[2]]
          /\ ~entry_grid[d[1]][d[2]] /\ ~grid[d[1]][d[2]]

\* C4: the neighbour count update() uses for every cell is the count of its
\* alive neighbours in the grid as it was when update() was entered,
\* spawning or not.
C4_SnapshotCounts ==
    did_update =>
        \A c \in Cells(entry_grid) :
            used_neighbors[c[1]][c[2]] = MooreCount(entry_grid, c)

\* C5: immediately after every update(), alive_count is the number of alive
\* cells of the grid update() installed.
C5_CountAfterUpdate == did_update => alive_count = AliveCells(grid)

\* An update() with spawning on has installed a grid with alive cells whose
\* number differs from the count held before.
C5_Witness ==
    /\ did_update
    /\ spawing
    /\ alive_count > 0
    /\ alive_count # AliveCells(entry_grid)

\* C6: for every in-grid position check_neighbors returns the number of
\* alive cells among the Moore neighbours inside the grid: within 0..8, at
\* most 3 for a corner cell and at most 5 for an edge cell.
C6_NeighborCount ==
    \A c \in Cells(grid) :
        LET n      == check_neighbors(grid, c[1], c[2])
            x_edge == c[1] \in {0, width - 1}
            y_edge == c[2] \in {0, height - 1}
        IN  /\ n = MooreCount(grid, c)
            /\ n \in 0..8
            /\ (x_edge /\ y_edge) => n <= 3
            /\ (x_edge \/ y_edge) => n <= 5

\* A 3 x 3 grid whose inner cell has 8 alive neighbours, a corner 3, an edge cell 5.
C6_Witness ==
    /\ width = 3
    /\ height = 3
    /\ check_neighbors(grid, 1, 1) = 8
    /\ check_neighbors(grid, 0, 0) = 3
    /\ check_neighbors(grid, 0, 1) = 5

\* C7: after the n-th 's' key-down the spawning flag is on iff n is odd.
C7_SpawnFlagParity == spawing <=> (s_presses % 2 = 1)

\* C8: while paused, update() is not called: no step taken from a paused
\* state records an update() or changes alive_count, and a cell changes only
\* in the mouse step of a frame, which changes that cell alone.
C8_PausedFreezesGrid ==
    [][ paused =>
          /\ ~did_update'
          /\ alive_count' = alive_count
          /\ Cells(grid') = Cells(grid)
          /\ \A c \in Cells(grid) :
                grid'[c[1]][c[2]] # grid[c[1]][c[2]] =>
                    /\ pc = "mouse"
                    /\ \A d \in Cells(grid) \ {c} : grid'[d[1]][d[2]] = grid[d[1]][d[2]]
      ]_vars

\* A paused frame has passed the point of update() with a cell alive that
\* only a mouse toggle can have set (no SPACE key-down was ever processed).
C8_Witness ==
    /\ pc = "render"
    /\ paused
    /\ ~space_seen
    /\ ~did_update
    /\ AliveCells(grid) > 0

\* C9: the speed starts at 10 and stays within 5..120; a speed-up key-down
\* adds 5 capped at 120, a speed-down key-down subtracts 5 floored at 5, and
\* no other step changes the speed.
C9_SpeedClamped ==
    /\ simulation_speed = 10
    /\ [](simulation_speed \in 5..120)
    /\ [][ /\ HandleEvent(KeyDown("K_EQUALS")) =>
                simulation_speed' =
                    IF simulation_speed + 5 > 120 THEN 120 ELSE simulation_speed + 5
           /\ HandleEvent(KeyDown("K_MINUS")) =>
                simulation_speed' =
                    IF simulation_speed - 5 < 5 THEN 5 ELSE simulation_speed - 5
           /\ simulation_speed' # simulation_speed =>
                \/ HandleEvent(KeyDown("K_EQUALS"))
                \/ HandleEvent(KeyDown("K_MINUS"))
      ]_vars

\* The speed has been raised to the cap.
C9_Witness == simulation_speed = 120

\* C10: the program starts paused with every cell dead and alive_count 0;
\* until a SPACE key-down has been processed it stays paused and no update()
\* runs; every SPACE key-down flips paused and no other step changes it.
C10_PausedOnlyBySpace ==
    /\ paused = TRUE
    /\ alive_count = 0
    /\ AliveCells(grid) = 0
    /\ [](~space_seen => paused /\ ~did_update /\ alive_count = 0)
    /\ [][ /\ HandleEvent(KeyDown("K_SPACE")) => paused' = ~paused
           /\ paused' # paused => HandleEvent(KeyDown("K_SPACE"))
      ]_vars

\* After a SPACE key-down the program runs: a frame has called update() on a
\* grid in which a mouse toggle had set a cell alive.
C10_Witness ==
    /\ pc = "render"
    /\ space_seen
    /\ ~paused
    /\ did_update
    /\ AliveCells(entry_grid) > 0

\* The cells the last update() spawned: dead when update() was entered,
\* alive in the grid it read and discarded.
SpawnedCells ==
    {c \in Cells(entry_grid) : ~entry_grid[c[1]][c[2]] /\ old_grid[c[1]][c[2]]}

\* C11: after every update() made with spawning enabled, every cell whose
\* spawn draw succeeded during the call is alive in the generation the call
\* produced, whatever its neighbour count.
C11_SpawnedCellAlive ==
    (did_update /\ spawing) => \A c \in SpawnedCells : grid[c[1]][c[2]]

\* C12: the spawn threshold is carried from one update() to the next: an
\* update() that follows another one starts with the threshold the previous
\* one ended with, and does not end below it.
C12_ThresholdCarriedOver ==
    [][ (pc = "update" /\ life_chance_end > 0 /\ did_update') =>
            /\ life_chance_start' = life_chance_end
            /\ life_chance_end' >= life_chance_end
      ]_vars

\* C13: for a 5 x 5 grid in which exactly one cell is alive, one
\* update() yields a grid in which every cell is dead and alive_count is 0.
C13_LoneCellDies ==
    (did_update /\ width = 5 /\ height = 5 /\ AliveCells(entry_grid) = 1) =>
        /\ AliveCells(grid) = 0
        /\ alive_count = 0

\* C14: once a QUIT event has been processed (running is False) the program
\* eventually reaches its terminated state; running stays False, the frame
\* in which the event was polled is finished and no other frame starts (the
\* step after rendering leaves the loop), and nothing happens after the end.
C14_QuitTerminates ==
    /\ (running = FALSE) ~> (pc = "done")
    /\ [](pc = "done" => running = FALSE)
    /\ [][ /\ running = FALSE => (running' = FALSE /\ pc' # "poll")
           /\ (running = FALSE /\ pc = "render") => pc' = "done"
           /\ pc # "done"
      ]_vars

\* The program has ended after a QUIT event polled in a frame that was
\* running with spawning on.
C14_Witness ==
    /\ pc = "done"
    /\ running = FALSE
    /\ paused = FALSE
    /\ spawing = TRUE

\* C15: a mouse sample with the button held and the cursor at pixel (px, py)
\* toggles the cell whose square of cell_size pixels holds (px, py), if the
\* grid has one, and leaves every other cell, alive_count, the spawning
\* flag, paused and the speed unchanged; with the cursor outside the grid or
\* the button up nothing changes.
C15_MouseTogglesOneCell ==
    [][ pc = "mouse" =>
          \A pressed \in BOOLEAN, px \in Pixels(width), py \in Pixels(height) :
              MouseStep(pressed, px, py) =>
                  LET hit == {c \in Cells(grid) :
                                 /\ pressed
                                 /\ c[1] * cell_size <= px /\ px < (c[1] + 1) * cell_size
                                 /\ c[2] * cell_size <= py /\ py < (c[2] + 1) * cell_size}
                  IN  /\ Cells(grid') = Cells(grid)
                      /\ \A c \in Cells(grid) :
                            grid'[c[1]][c[2]] =
                                IF c \in hit THEN ~grid[c[1]][c[2]] ELSE grid[c[1]][c[2]]
                      /\ hit = {} => grid' = grid
                      /\ alive_count' = alive_count
                      /\ spawing' = spawing
                      /\ paused' = paused
                      /\ simulation_speed' = simulation_speed
      ]_vars

\* A mouse sample with the cursor on cell (1,0) has just toggled that cell
\* alive and left (0,0) dead and alive_count 0.
C15_Witness ==
    /\ pc = "update"
    /\ hold.frames = 1
    /\ hold.cell = <<1, 0>>
    /\ grid[1][0]
    /\ ~grid[0][0]
    /\ alive_count = 0

\* C16: while paused, a cell on which the button has been held for k
\* consecutive frames has its original state iff k is even: every frame
\* toggles it once.
C16_HeldCellParity ==
    (paused /\ hold.frames > 0) =>
        ((grid[hold.cell[1]][hold.cell[2]] = hold.origin) <=> (hold.frames % 2 = 0))

\* The button has been held on cell (1,0), dead at first, for 4 frames.
C16_Witness ==
    /\ paused
    /\ hold.frames = 4
    /\ hold.cell = <<1, 0>>
    /\ hold.origin = FALSE
    /\ pc = "render"

\* C17: a frame runs its steps in the order: the polled events one by one
\* until none is pending, the mouse sample, update() unless paused,
\* rendering.  paused changes only while events are processed, so update()
\* runs in a frame iff paused is false after the frame's events, also in the
\* frame that polled a QUIT event; and update() reads the grid the mouse
\* sample of the same frame left.
C17_FrameOrder ==
    /\ [](pc = "render" => (did_update <=> paused = FALSE))
    /\ [][ /\ pc = "poll" => pc' = "events"
           /\ pc = "events" =>
                 IF pending > 0
                 THEN pc' = "events" /\ pending' = pending - 1
                 ELSE pc' = "mouse"
           /\ pc = "mouse" => (pc' = "update" /\ did_update' = FALSE)
           /\ pc = "update" => (pc' = "render" /\ (did_update' <=> paused = FALSE))
           /\ pc = "render" => pc' = (IF running THEN "poll" ELSE "done")
           /\ paused' # paused => pc = "events"
           /\ (pc = "update" /\ did_update') =>
                 /\ entry_grid' = grid
                 /\ \A c \in Cells(grid) :
                        MooreCount(grid, c) <= used_neighbors'[c[1]][c[2]]
                 /\ spawing = FALSE =>
                        \A c \in Cells(grid) :
                            used_neighbors'[c[1]][c[2]] = MooreCount(grid, c)
      ]_vars

\* A running frame that polled a QUIT event has performed its update(), on
\* a grid in which a mouse toggle had set a cell alive.
C17_Witness ==
    /\ pc = "render"
    /\ running = FALSE
    /\ paused = FALSE
    /\ did_update
    /\ AliveCells(entry_grid) > 0

\* C18: update() and check_neighbors cannot fail, for every grid size
\* (width or height 0 included), cell state and spawning flag.  The grid has
\* the shape width x height, so grid[x][y] exists for every scanned cell;
\* for every scanned cell and direction, grid[0] is read only if the grid has
\* a column 0 and grid[nx][ny] only if the bounds test has passed, which
\* implies that (nx, ny) is a position of the grid; update() has an outcome
\* and keeps the shape; on a zero-sized grid it leaves the grid as it was,
\* without cells, and alive_count 0.
C18_UpdateCannotFail ==
    /\ DOMAIN grid = 0..(width - 1)
    /\ \A x \in DOMAIN grid : DOMAIN grid[x] = 0..(height - 1)
    /\ \A c \in Cells(grid) : \A i \in 1..Len(directions) :
          LET nx == c[1] + directions[i][1]
              ny == c[2] + directions[i][2]
          IN  /\ (0 <= nx /\ nx < len(grid)) => 0 \in DOMAIN grid
              /\ InBounds(grid, nx, ny) => << nx, ny >> \in Cells(grid)
    /\ pc = "update" => update(grid, width, height, spawing) # {}
    /\ did_update =>
          /\ DOMAIN grid = DOMAIN entry_grid
          /\ \A x \in DOMAIN grid : DOMAIN grid[x] = DOMAIN entry_grid[x]
    /\ (did_update /\ width * height = 0) =>
          /\ grid = entry_grid
          /\ Cells(grid) = {}
          /\ alive_count = 0

\* An update() with spawning on has run on a grid of 2 columns without rows.
C18_Witness ==
    /\ did_update
    /\ spawing
    /\ width = 2
    /\ height = 0
    /\ grid = entry_grid

\* The dead cells of g, and the first of them in the scan order of update()
\* (x-major, y-minor).
DeadCells(g) == {c \in Cells(g) : ~g[c[1]][c[2]]}

FirstDeadCell(g) ==
    CHOOSE c \in DeadCells(g) :
        \A d \in DeadCells(g) : c[1] * len(g[0]) + c[2] <= d[1] * len(g[0]) + d[2]

\* C19: in an update() with spawning enabled the threshold starts at 1,
\* ends at 1 plus the number of spawned cells and is at most 1000; the first
\* dead cell in scan order, if there is one, is spawned; at most 999 cells
\* are spawned.  A scan that goes on from locals whose threshold is one
\* below the cap, or at it, ends with a threshold that has grown by the
\* number of its spawns and is at most 1000.
C19_ThresholdWithinUpdate ==
    /\ (did_update /\ spawing) =>
          /\ life_chance_start = 1
          /\ life_chance_end = 1 + Cardinality(SpawnedCells)
          /\ life_chance_end <= 1000
          /\ Cardinality(SpawnedCells) <= 999
          /\ DeadCells(entry_grid) # {} => FirstDeadCell(entry_grid) \in SpawnedCells
    /\ (pc = "update" /\ spawing) =>
          \A lc \in {999, 1000} :
              \A st \in UpdateScanWithin(
                            {[UpdateStart(grid, width, height) EXCEPT !.life_chance = lc]},
                            0, width, height, spawing, lc + width * height) :
                  /\ st.life_chance <= 1000
                  /\ st.life_chance =
                        lc + Cardinality({c \in DeadCells(grid) : st.grid[c[1]][c[2]]})
                  /\ lc = 1000 => st.grid = grid

\* An update() with spawning on has spawned the first dead cell, which was
\* not the first cell, and three more, but not every dead cell.
C19_Witness ==
    /\ did_update
    /\ spawing
    /\ life_chance_end = 5
    /\ entry_grid[0][0]
    /\ Cardinality(SpawnedCells) < Cardinality(DeadCells(entry_grid))

\* The neighbours of c that update() scans before c: the column to the left
\* and the cell above.
EarlierNeighbors(c) ==
    { << c[1] - 1, c[2] - 1 >>, << c[1] - 1, c[2] >>, << c[1] - 1, c[2] + 1 >>,
      << c[1], c[2] - 1 >> }

\* C20: a spawn only sets a dead cell of the discarded grid alive.  The
\* count update() uses for a cell is the count in the pre-update grid plus
\* the number of spawned cells among its earlier-scanned neighbours, and the
\* cell's next state is the survival or birth rule on that count: spawns at
\* the cell itself or at later-scanned cells do not enter, and a spawned
\* cell is alive next only by the birth rule.
C20_SpawnReach ==
    did_update =>
        \A c \in Cells(entry_grid) :
            LET used == MooreCount(entry_grid, c) +
                        Cardinality(SpawnedCells \cap EarlierNeighbors(c))
            IN  /\ entry_grid[c[1]][c[2]] => old_grid[c[1]][c[2]]
                /\ used_neighbors[c[1]][c[2]] = used
                /\ grid[c[1]][c[2]] =
                      IF entry_grid[c[1]][c[2]] THEN used \in {2, 3} ELSE used = 3

\* An update() has spawned a cell that is dead in the new generation and a
\* cell that is alive in it, and a dead cell that had fewer than 3 alive
\* neighbours and was not spawned has been born.
C20_Witness ==
    /\ did_update
    /\ \E c, d \in SpawnedCells : ~grid[c[1]][c[2]] /\ grid[d[1]][d[2]]
    /\ \E c \in DeadCells(entry_grid) \ SpawnedCells :
          grid[c[1]][c[2]] /\ MooreCount(entry_grid, c) < 3

====
